---------------------------- MODULE Spec2Model ----------------------------
(***************************************************************************)
(* A model of MedicalCodingSequence/__init__.py: TemporalRecord and        *)
(* TemporalSequencer (add_data, add_temporal_record, sequence, serialize,  *)
(* read).                                                                  *)
(*                                                                         *)
(* Representation.                                                         *)
(*  - A datetime is the tuple <<date, hour, minute, second, microsecond>>; *)
(*    datetimes compare lexicographically, as datetime.__lt__ does.        *)
(*  - A Python str is a sequence of tokens.  A token is one character,     *)
(*    except that each numeric field of a formatted datetime (the date     *)
(*    %Y-%m-%d, %H, %M, %S, %f) is one token, and a JSON key is one token. *)
(*  - A Python value passed as shuffle_level is [t |-> type, v |-> value]. *)
(*  - random.shuffle is a nondeterministic choice of a permutation.        *)
(*  - A raised exception is recorded in last.err and leaves the fields the *)
(*    code has not assigned before the raise as they were.                 *)
(***************************************************************************)
EXTENDS Integers, Sequences, FiniteSets, TLC

VARIABLES
    data,           \* self.data: the list of TemporalRecord
    metadata,       \* self.metadata: the dict, as a sequence of <<key, value>>
    sep,            \* self.sep
    shuffle_level,  \* self._shuffle_level
    sequenced,      \* self._sequenced
    result,         \* the str returned by the last call (<<>> when it returned none)
    record,         \* the TemporalRecord returned by the last TemporalRecord.read (<<>> or <<r>>)
    last            \* the last call: its name, its arguments, whether it ran
                    \* sequence, the exception it raised

vars == <<data, metadata, sep, shuffle_level, sequenced, result, record, last>>

-----------------------------------------------------------------------------
(* Bounds of the model *)

MaxRecords == 3

-----------------------------------------------------------------------------
(* Python values *)

None == [t |-> "NoneType", v |-> ""]

Str(s) == [t |-> "str", v |-> s]

PyInt(s) == [t |-> "int", v |-> s]

NoText == <<>>

(* The datetimes the environment supplies: 08:00 and 09:00 of day 1 and    *)
(* 00:00 of day 2.                                                         *)
TimeSet ==
    { <<1, 8, 0, 0, 0>>, <<1, 9, 0, 0, 0>>, <<2, 0, 0, 0, 0>> }

(* The codes the environment supplies, as str(code): "a" and "a, b".       *)
CodeSet == { <<"a">>, <<"a", ",", " ", "b">> }

(* The shuffle_level arguments the environment passes: None, three of the  *)
(* five supported keys (on TimeSet 'M' and 'S' group as 'H' does), the     *)
(* docstring's spelling '%d', and an int.                                  *)
LevelInputs ==
    { None, Str("d"), Str("H"), Str("f"), Str("%d"), PyInt("5") }

(* The constructor arguments the environment passes: (metadata, sep).      *)
ConstructorInputs ==
    { [metadata |-> << <<"pat_id", 1>> >>, sep |-> "\t"] }

-----------------------------------------------------------------------------
(* Sequence helpers *)

Reverse(s) == [i \in 1..Len(s) |-> s[Len(s) + 1 - i]]

(* str.join: the items of ss with d between them *)
RECURSIVE Join(_, _)
Join(ss, d) ==
    IF ss = <<>> THEN <<>>
    ELSE IF Len(ss) = 1 THEN ss[1]
    ELSE ss[1] \o d \o Join(Tail(ss), d)

StartsWith(s, d) == Len(s) >= Len(d) /\ SubSeq(s, 1, Len(d)) = d

(* str.split(d) for a non-empty d: left to right, non-overlapping; always  *)
(* at least one piece.                                                     *)
RECURSIVE SplitFrom(_, _, _)
SplitFrom(s, d, cur) ==
    IF s = <<>> THEN <<cur>>
    ELSE IF StartsWith(s, d)
         THEN <<cur>> \o SplitFrom(SubSeq(s, Len(d) + 1, Len(s)), d, <<>>)
         ELSE SplitFrom(Tail(s), d, Append(cur, Head(s)))

Split(s, d) == SplitFrom(s, d, <<>>)

(* s[1:-1] *)
Slice1(s) == IF Len(s) < 2 THEN <<>> ELSE SubSeq(s, 2, Len(s) - 1)

-----------------------------------------------------------------------------
(* datetime *)

Digits == <<"0", "1", "2", "3", "4", "5", "6", "7", "8", "9">>

IsDigit(tok) == \E i \in 1..Len(Digits) : Digits[i] = tok

DigitValue(tok) == (CHOOSE i \in 1..Len(Digits) : Digits[i] = tok) - 1

(* The directives of a format, and the field of the datetime each prints *)
IsDirective(tok) == tok \in {"%Y-%m-%d", "%H", "%M", "%S", "%f"}

FieldOf(tok) ==
    CASE tok = "%Y-%m-%d" -> 1
      [] tok = "%H" -> 2
      [] tok = "%M" -> 3
      [] tok = "%S" -> 4
      [] tok = "%f" -> 5

(* '%Y-%m-%d_%H:%M:%S.%f' *)
FullFormat == <<"%Y-%m-%d", "_", "%H", ":", "%M", ":", "%S", ".", "%f">>

(* TemporalSequencer._shuffle_dict: every value is a prefix of FullFormat *)
shuffle_dict ==
    [k \in {"d", "H", "M", "S", "f"} |->
        CASE k = "d" -> SubSeq(FullFormat, 1, 1)
          [] k = "H" -> SubSeq(FullFormat, 1, 3)
          [] k = "M" -> SubSeq(FullFormat, 1, 5)
          [] k = "S" -> SubSeq(FullFormat, 1, 7)
          [] k = "f" -> SubSeq(FullFormat, 1, 9)]

(* datetime.strftime *)
Strftime(ts, fmt) ==
    [i \in 1..Len(fmt) |->
        IF IsDirective(fmt[i]) THEN Digits[ts[FieldOf(fmt[i])] + 1] ELSE fmt[i]]

(* datetime.strptime: the text has to match the format token for token *)
StrptimeOk(text, fmt) ==
    /\ Len(text) = Len(fmt)
    /\ \A i \in 1..Len(fmt) :
          IF IsDirective(fmt[i]) THEN IsDigit(text[i]) ELSE text[i] = fmt[i]

Strptime(text, fmt) ==
    [f \in 1..5 |->
        DigitValue(text[CHOOSE i \in 1..Len(fmt) :
                            IsDirective(fmt[i]) /\ FieldOf(fmt[i]) = f])]

(* datetime.__lt__ *)
TsLess(a, b) ==
    \E i \in 1..5 : a[i] < b[i] /\ \A j \in 1..(i - 1) : a[j] = b[j]

-----------------------------------------------------------------------------
(* TemporalRecord *)

TemporalRecord(timestamp, code) == [timestamp |-> timestamp, code |-> code]

(* TemporalRecord.serialize: f'({timestamp}, {code})' *)
RecordSerialize(r) ==
    <<"(">> \o Strftime(r.timestamp, FullFormat) \o <<",", " ">> \o r.code \o <<")">>

(* TemporalRecord.read taking the code from the last piece, input_list[-1], *)
(* which exists also when there is no ', ' in the text                     *)
RecordReadLastPiece(input_str) ==
    LET input_list == Split(Slice1(input_str), <<",", " ">>)
    IN  IF ~StrptimeOk(input_list[1], FullFormat)
        THEN [err |-> "ValueError", rec |-> <<>>]
        ELSE [err |-> "none",
              rec |-> <<TemporalRecord(Strptime(input_list[1], FullFormat),
                                       input_list[Len(input_list)])>>]

(* TemporalRecord.read: [err, rec]; strptime raises ValueError, the index  *)
(* input_list[1] raises IndexError.                                        *)
RecordRead(input_str) ==
    LET input_list == Split(Slice1(input_str), <<",", " ">>)
    IN  IF ~StrptimeOk(input_list[1], FullFormat)
        THEN [err |-> "ValueError", rec |-> <<>>]
        ELSE IF Len(input_list) < 2
        THEN [err |-> "IndexError", rec |-> <<>>]
        ELSE [err |-> "none",
              rec |-> <<TemporalRecord(Strptime(input_list[1], FullFormat),
                                       input_list[2])>>]

-----------------------------------------------------------------------------
(* json *)

(* json.dumps of a dict with str keys and small int values *)
JsonItem(kv) == <<kv[1], ":", " ", Digits[kv[2] + 1]>>

JsonDumps(md) ==
    <<"{">> \o Join([i \in 1..Len(md) |-> JsonItem(md[i])], <<",", " ">>) \o <<"}">>

JsonItemOk(item) ==
    /\ Len(item) = 4
    /\ item[1] \in {"pat_id", "person_id"}
    /\ item[2] = ":"
    /\ item[3] = " "
    /\ IsDigit(item[4])

(* What json.loads makes of the text: a dict, a list of numbers, a number, *)
(* or nothing (it raises JSONDecodeError).                                 *)
JsonKind(text) ==
    LET items == Split(Slice1(text), <<",", " ">>)
    IN  IF Len(text) = 0 THEN "invalid"
        ELSE IF Len(text) = 1 THEN (IF IsDigit(text[1]) THEN "number" ELSE "invalid")
        ELSE IF text[1] = "{" /\ text[Len(text)] = "}"
        THEN IF Len(text) = 2 \/ \A i \in 1..Len(items) : JsonItemOk(items[i])
             THEN "dict" ELSE "invalid"
        ELSE IF text[1] = "[" /\ text[Len(text)] = "]"
        THEN IF Len(text) = 2 \/ \A i \in 1..Len(items) :
                                    Len(items[i]) = 1 /\ IsDigit(items[i][1])
             THEN "list" ELSE "invalid"
        ELSE "invalid"

(* json.loads of the text of a dict *)
JsonLoads(text) ==
    IF Len(text) = 2 THEN <<>>
    ELSE LET items == Split(Slice1(text), <<",", " ">>)
         IN  [i \in 1..Len(items) |-> <<items[i][1], DigitValue(items[i][4])>>]

-----------------------------------------------------------------------------
(* TemporalSequencer.sequence *)

ValidLevel(level) ==
    level = None \/ (level.t = "str" /\ level.v \in DOMAIN shuffle_dict)

(* The insertion of r behind every element that does not sort after it *)
InsertSorted(s, r) ==
    LET n == Cardinality({ i \in 1..Len(s) : ~TsLess(r.timestamp, s[i].timestamp) })
    IN  SubSeq(s, 1, n) \o <<r>> \o SubSeq(s, n + 1, Len(s))

RECURSIVE StableSort(_)
StableSort(s) ==
    IF s = <<>> THEN <<>>
    ELSE InsertSorted(StableSort(SubSeq(s, 1, Len(s) - 1)), s[Len(s)])

(* A descending sort made by reversing an ascending one: equal elements    *)
(* come out in the opposite of their original order                        *)
SortDataReversed(s, reverse) ==
    IF reverse THEN Reverse(StableSort(s)) ELSE StableSort(s)

(* list.sort(key=timestamp, reverse=reverse): stable; with reverse the     *)
(* list is reversed, sorted and reversed again, which keeps equal elements *)
(* in their original order.                                                *)
SortData(s, reverse) ==
    IF reverse THEN Reverse(StableSort(Reverse(s))) ELSE StableSort(s)

(* random.shuffle: every permutation of the group *)
Shuffles(group) ==
    { [i \in 1..Len(group) |-> group[p[i]]] : p \in Permutations(1..Len(group)) }

(* The loop of lines 114-126 from index i on, and line 127: the values     *)
(* new_seq can have when the loop ends.  current_datetime starts as None,  *)
(* here the empty text, which no formatted datetime equals.                *)
RECURSIVE ShuffleLoop(_, _, _, _, _, _)
ShuffleLoop(sorted, fmt, i, new_seq, current_datetime, current_group) ==
    IF i > Len(sorted) THEN { new_seq }
    ELSE LET r == sorted[i]
             new_datetime == Strftime(r.timestamp, fmt)
         IN  IF new_datetime # current_datetime
             THEN UNION { ShuffleLoop(sorted, fmt, i + 1, new_seq \o g, new_datetime, <<r>>) :
                            g \in Shuffles(current_group) }
             ELSE ShuffleLoop(sorted, fmt, i + 1, new_seq, current_datetime,
                              Append(current_group, r))

(* The values self.data can have after sequence(level, reverse), for a     *)
(* valid level.                                                            *)
SequenceOutcomes(s, level, reverse) ==
    IF level = None THEN { SortData(s, reverse) }
    ELSE ShuffleLoop(SortData(s, reverse), shuffle_dict[level.v], 1, <<>>, NoText, <<>>)

-----------------------------------------------------------------------------
(* TemporalSequencer.serialize, TemporalSequencer.read *)

SerializeText(md, s, recs) ==
    JsonDumps(md) \o <<s>> \o Join([i \in 1..Len(recs) |-> RecordSerialize(recs[i])], <<s>>)

(* The fields of the text after the metadata field *)
RecordFields(input_str, s) == Tail(Split(input_str, <<s>>))

(* The first failure of read, or "none" *)
RECURSIVE FirstRecordError(_)
FirstRecordError(fields) ==
    IF fields = <<>> THEN "none"
    ELSE IF RecordRead(Head(fields)).err # "none" THEN RecordRead(Head(fields)).err
    ELSE FirstRecordError(Tail(fields))

(* What read raises: json.loads JSONDecodeError, the constructor ValueError *)
(* for metadata that is no dict (line 68), TemporalRecord.read its own.    *)
ReadError(input_str, s) ==
    LET kind == JsonKind(Split(input_str, <<s>>)[1])
    IN  IF kind = "invalid" THEN "JSONDecodeError"
        ELSE IF kind # "dict" THEN "ValueError"
        ELSE FirstRecordError(RecordFields(input_str, s))

(* read putting each record in front of the ones read before it *)
ReadDataPrepending(input_str, s) ==
    LET fields == RecordFields(input_str, s)
    IN  [i \in 1..Len(fields) |-> RecordRead(fields[Len(fields) + 1 - i]).rec[1]]

ReadData(input_str, s) ==
    LET fields == RecordFields(input_str, s)
    IN  [i \in 1..Len(fields) |-> RecordRead(fields[i]).rec[1]]

-----------------------------------------------------------------------------
(* The calls *)

Call(op, level, reverse, input_str, ran_sequence, err) ==
    [op |-> op, shuffle_level |-> level, reverse |-> reverse,
     input_str |-> input_str, ran_sequence |-> ran_sequence, err |-> err]

Init ==
    /\ \E c \in ConstructorInputs : metadata = c.metadata /\ sep = c.sep
    /\ data = <<>>
    /\ shuffle_level = None
    /\ sequenced = FALSE
    /\ result = NoText
    /\ record = <<>>
    /\ last = Call("__init__", None, FALSE, NoText, FALSE, "none")

(* add_data(timestamp, code) *)
add_data(timestamp, code) ==
    /\ Len(data) < MaxRecords
    /\ data' = Append(data, TemporalRecord(timestamp, code))
    /\ sequenced' = FALSE
    /\ result' = NoText
    /\ record' = <<>>
    /\ last' = Call("add_data", None, FALSE, NoText, FALSE, "none")
    /\ UNCHANGED <<metadata, sep, shuffle_level>>

(* add_temporal_record(ts) *)
add_temporal_record(ts) ==
    /\ Len(data) < MaxRecords
    /\ data' = Append(data, ts)
    /\ sequenced' = FALSE
    /\ result' = NoText
    /\ record' = <<>>
    /\ last' = Call("add_temporal_record", None, FALSE, NoText, FALSE, "none")
    /\ UNCHANGED <<metadata, sep, shuffle_level>>

(* sequence recording the granularity before it validates it *)
SequenceBodyRecordsFirst(level, reverse, ok) ==
    IF ~ValidLevel(level)
    THEN /\ ok = FALSE
         /\ shuffle_level' = level
         /\ UNCHANGED <<data, sequenced>>
    ELSE /\ ok = TRUE
         /\ shuffle_level' = level
         /\ data' \in SequenceOutcomes(data, level, reverse)
         /\ sequenced' = TRUE

(* The body of sequence(level, reverse), lines 101-129; ok says whether it *)
(* returned (TRUE) or raised ValueError (FALSE).                           *)
SequenceBody(level, reverse, ok) ==
    IF ~ValidLevel(level)
    THEN /\ ok = FALSE
         /\ UNCHANGED <<data, shuffle_level, sequenced>>
    ELSE /\ ok = TRUE
         /\ shuffle_level' = level
         /\ data' \in SequenceOutcomes(data, level, reverse)
         /\ sequenced' = TRUE

Raised(ok) == IF ok THEN "none" ELSE "ValueError"

(* sequence(level, reverse) *)
sequence(level, reverse) ==
    /\ \E ok \in BOOLEAN :
          /\ SequenceBody(level, reverse, ok)
          /\ last' = Call("sequence", level, reverse, NoText, TRUE, Raised(ok))
    /\ result' = NoText
    /\ record' = <<>>
    /\ UNCHANGED <<metadata, sep>>

(* A staleness test that forgets the recorded granularity *)
StaleFlagOnly(level) == ~sequenced

(* Whether serialize(level, ...) calls sequence: line 144 *)
Stale(level) == ~sequenced \/ shuffle_level # level

(* serialize(level, reverse) *)
serialize(level, reverse) ==
    /\ IF Stale(level)
       THEN \E ok \in BOOLEAN :
               /\ SequenceBody(level, reverse, ok)
               /\ last' = Call("serialize", level, reverse, NoText, TRUE, Raised(ok))
               /\ result' = IF ok THEN SerializeText(metadata, sep, data') ELSE NoText
       ELSE /\ last' = Call("serialize", level, reverse, NoText, FALSE, "none")
            /\ result' = SerializeText(metadata, sep, data)
            /\ UNCHANGED <<data, shuffle_level, sequenced>>
    /\ record' = <<>>
    /\ UNCHANGED <<metadata, sep>>

(* ts = TemporalSequencer.read(input_str, s); the model goes on with ts *)
read(input_str, s) ==
    /\ IF ReadError(input_str, s) # "none"
       THEN /\ last' = Call("read", None, FALSE, input_str, FALSE, ReadError(input_str, s))
            /\ UNCHANGED <<data, metadata, sep, shuffle_level, sequenced>>
       ELSE /\ metadata' = JsonLoads(Split(input_str, <<s>>)[1])
            /\ sep' = s
            /\ shuffle_level' = None
            /\ data' = ReadData(input_str, s)
            /\ sequenced' = TRUE
            /\ last' = Call("read", None, FALSE, input_str, FALSE, "none")
    /\ result' = NoText
    /\ record' = <<>>


(* rec = TemporalRecord.read(input_str) *)
record_read(input_str) ==
    /\ record' = RecordRead(input_str).rec
    /\ last' = Call("record_read", None, FALSE, input_str, FALSE, RecordRead(input_str).err)
    /\ result' = NoText
    /\ UNCHANGED <<data, metadata, sep, shuffle_level, sequenced>>

AddData == \E t \in TimeSet, c \in CodeSet : add_data(t, c)

AddTemporalRecord == \E t \in TimeSet, c \in CodeSet : add_temporal_record(TemporalRecord(t, c))

Sequence == \E level \in LevelInputs, reverse \in BOOLEAN : sequence(level, reverse)

Serialize == \E level \in LevelInputs, reverse \in BOOLEAN : serialize(level, reverse)

(* The caller reads back the text serialize has just returned, with the    *)
(* sequencer's separator.                                                  *)
ReadBack == result # NoText /\ read(result, sep)

Next == AddData \/ AddTemporalRecord \/ Sequence \/ Serialize \/ ReadBack

Spec == Init /\ [][Next]_vars

-----------------------------------------------------------------------------
(* The two read functions on texts that no serialize call produced *)

(* Record texts: an opening bracket or none, a timestamp text (full, cut   *)
(* at the second, or no timestamp), a delimiter or none, a code, a closing *)
(* bracket or none.                                                        *)
TimestampTexts ==
    { Strftime(<<1, 8, 0, 0, 0>>, FullFormat),
      Strftime(<<1, 8, 0, 0, 0>>, shuffle_dict["S"]),
      <<"x">> }

RecordTextInputs ==
    { open \o ts \o delim \o code \o close :
        open \in { <<"(">>, <<"[">>, <<>> },
        ts \in TimestampTexts,
        delim \in { <<",", " ">>, <<",">>, <<>> },
        code \in { <<"a">>, <<>>, <<"a", ",", " ", "b">> },
        close \in { <<")">>, <<"]">>, <<>> } }

(* The fields of a sequencer text: JSON objects, a JSON list and a text    *)
(* that is not JSON; record fields, well formed and not.                   *)
MetadataTexts ==
    { <<"{", "}">>,
      <<"{", "pat_id", ":", " ", "1", "}">>,
      <<"{", "pat_id", ":", " ", "1", ",", " ", "person_id", ":", " ", "2", "}">>,
      <<"[", "1", "]">>,
      <<"{", "pat_id", "}">> }

FieldInputs ==
    { RecordSerialize(TemporalRecord(<<2, 0, 0, 0, 0>>, <<"a">>)),
      RecordSerialize(TemporalRecord(<<1, 8, 0, 0, 0>>, <<"a", ",", " ", "b">>)),
      <<"[">> \o Strftime(<<1, 9, 0, 0, 0>>, FullFormat) \o <<",", " ", "a", "]">>,
      <<"(">> \o Strftime(<<1, 9, 0, 0, 0>>, FullFormat) \o <<")">>,
      <<"(">> \o Strftime(<<1, 9, 0, 0, 0>>, shuffle_dict["S"]) \o <<",", " ", "a", ")">>,
      <<>> }

TextInputs ==
    { Join(<<md>> \o fields, <<"\t">>) :
        md \in MetadataTexts,
        fields \in { <<>> } \cup { <<f>> : f \in FieldInputs }
                   \cup { <<f, g>> : f \in FieldInputs, g \in FieldInputs } }

(* Both functions are static and read no state: a behaviour makes one call *)
FirstCall == last.op = "__init__"

ReadRecord == FirstCall /\ \E input_str \in RecordTextInputs : record_read(input_str)

ReadText == FirstCall /\ \E input_str \in TextInputs : read(input_str, "\t")

NextRead == ReadRecord \/ ReadText

SpecRead == Init /\ [][NextRead]_vars

-----------------------------------------------------------------------------
(* What the properties are stated with *)

Count(s, r) == Cardinality({ i \in 1..Len(s) : s[i] = r })

(* s and t hold the same records, each as often *)
SameRecords(s, t) ==
    /\ Len(s) = Len(t)
    /\ \A i \in 1..Len(s) : Count(s, s[i]) = Count(t, s[i])

SupportedLevels == { Str("d"), Str("H"), Str("M"), Str("S"), Str("f") }

(* The number of leading fields of a datetime that level keeps: 1 for the  *)
(* day, 5 for the microsecond and for no granularity.                      *)
FieldsKept(level) ==
    CASE level = Str("d") -> 1
      [] level = Str("H") -> 2
      [] level = Str("M") -> 3
      [] level = Str("S") -> 4
      [] OTHER -> 5

(* The datetime a truncated to level is earlier than b truncated to level *)
TruncLess(a, b, level) ==
    \E i \in 1..FieldsKept(level) : a[i] < b[i] /\ \A j \in 1..(i - 1) : a[j] = b[j]

(* Along s the datetimes truncated to level never go back (never forward   *)
(* when reverse)                                                           *)
Ordered(s, level, reverse) ==
    \A i \in 1..(Len(s) - 1) :
        IF reverse
        THEN ~TruncLess(s[i].timestamp, s[i + 1].timestamp, level)
        ELSE ~TruncLess(s[i + 1].timestamp, s[i].timestamp, level)

(* The records of s with the datetime ts, in their order *)
At(s, ts) == SelectSeq(s, LAMBDA r : r.timestamp = ts)

(* The call that ended in the primed state *)
Called(op) == last'.op = op

Returned(op) == last'.op = op /\ last'.err = "none"

-----------------------------------------------------------------------------
(* C1: sequence(g, reverse) with a supported non-null g never loses or     *)
(* duplicates a record: the sequencer holds the same multiset of records   *)
(* after the call as before it.                                            *)
C1_SequenceKeepsRecords ==
    [][ (Returned("sequence") /\ last'.shuffle_level # None)
            => SameRecords(data, data') ]_vars

(* No code of the sequencer holds the separator or a ')' *)
WellFormed ==
    \A i \in 1..Len(data) :
        \A k \in 1..Len(data[i].code) : data[i].code[k] \notin { sep, ")" }

(* C2: round trip.  For a sequencer whose codes hold no separator and no   *)
(* ')', whatever the number of records, reading back the text that         *)
(* serialize(None) returned succeeds and gives the same metadata and the   *)
(* same records in the same order.                                         *)
C2_RoundTrip ==
    [][ ( /\ last.op = "serialize" /\ last.err = "none" /\ last.shuffle_level = None
          /\ Called("read") /\ last'.input_str = result
          /\ WellFormed )
            => (last'.err = "none" /\ data' = data /\ metadata' = metadata) ]_vars

(* C3: after sequence(None, reverse) the records are in non-decreasing     *)
(* order of timestamp (non-increasing when reverse), and records with      *)
(* equal timestamps are in the order they had before the call.             *)
C3_SequenceNoneSortsStably ==
    [][ (Returned("sequence") /\ last'.shuffle_level = None)
            => /\ Ordered(data', None, last'.reverse)
               /\ \A ts \in TimeSet : At(data', ts) = At(data, ts) ]_vars

(* C3's case: a reverse sort has run on records that share a timestamp and *)
(* differ in code, next to a record of another timestamp.                  *)
C3_Witness ==
    /\ last.op = "sequence" /\ last.err = "none"
    /\ last.shuffle_level = None /\ last.reverse
    /\ \E i, j, k \in 1..Len(data) :
          /\ i < j
          /\ data[i].timestamp = data[j].timestamp
          /\ data[i].code # data[j].code
          /\ data[k].timestamp # data[i].timestamp

(* Every record of a later bucket is in the output, behind every record   *)
(* of an earlier bucket (in front of it when reverse)                      *)
PlacedInBucketOrder(before, after, level, reverse) ==
    \A i, j \in 1..Len(before) :
        TruncLess(before[i].timestamp, before[j].timestamp, level)
            => \E p, q \in 1..Len(after) :
                  /\ after[p] = before[i]
                  /\ after[q] = before[j]
                  /\ IF reverse THEN q < p ELSE p < q

(* C4: after sequence(g, reverse) with a supported non-null g the          *)
(* timestamps truncated to g never go back along the output (never forward *)
(* when reverse), and a record of a later bucket is in the output behind   *)
(* every record of an earlier bucket: with A and B on day 1 and C on day   *)
(* 2, sequence('d') places C after A and after B.                          *)
C4_LaterBucketPlacedAfter ==
    [][ (Returned("sequence") /\ last'.shuffle_level # None)
            => /\ Ordered(data', last'.shuffle_level, last'.reverse)
               /\ PlacedInBucketOrder(data, data', last'.shuffle_level, last'.reverse) ]_vars

(* The order C4 asks of the records that sequence keeps *)
SequenceOrdersBuckets ==
    [][ (Returned("sequence") /\ last'.shuffle_level # None)
            => Ordered(data', last'.shuffle_level, last'.reverse) ]_vars

C6_ReverseSerializesMostRecentFirst ==
    (last.op = "serialize" /\ last.err = "none" /\ last.reverse)
        => /\ result = SerializeText(metadata, sep, data)
           /\ Ordered(data, last.shuffle_level, TRUE)

(* The text parses as a timestamp at microsecond precision *)
IsTimestampText(text) == StrptimeOk(text, FullFormat)

(* The text is ( <timestamp> , <code> ) *)
RecordForm(text) ==
    /\ Len(text) >= Len(FullFormat) + 4
    /\ text[1] = "("
    /\ IsTimestampText(SubSeq(text, 2, Len(FullFormat) + 1))
    /\ SubSeq(text, Len(FullFormat) + 2, Len(FullFormat) + 3) = <<",", " ">>
    /\ text[Len(text)] = ")"

(* The fields of a sequencer text behind its metadata field *)
FieldsOfText(text, s) == Tail(Split(text, <<s>>))

InnerForm(text) ==
    /\ Len(text) >= Len(FullFormat) + 4
    /\ IsTimestampText(SubSeq(text, 2, Len(FullFormat) + 1))
    /\ SubSeq(text, Len(FullFormat) + 2, Len(FullFormat) + 3) = <<",", " ">>

C9_AddInvalidatesSequencing ==
    [][ /\ (Called("add_data") \/ Called("add_temporal_record"))
            => /\ Len(data') = Len(data) + 1
               /\ SubSeq(data', 1, Len(data)) = data
               /\ ~sequenced'
        /\ ( /\ last.op \in { "add_data", "add_temporal_record" }
             /\ Returned("serialize") )
            => /\ last'.ran_sequence
               /\ Count(data', data[Len(data)]) = Count(data, data[Len(data)])
               /\ Ordered(data', last'.shuffle_level, last'.reverse) ]_vars

(* The field starts with the serialization of r, less the closing bracket *)
FieldOfRecord(field, r) ==
    StartsWith(field, <<"(">> \o Strftime(r.timestamp, FullFormat) \o <<",", " ">> \o r.code)

(* C10: read returns a sequencer that is marked sequenced, with no         *)
(* granularity recorded, whose records are those of the fields of the text *)
(* in their order; a serialize(None) called on it next does not sort and   *)
(* returns the records in that order, chronological or not.                *)
C10_ReadKeepsTextOrder ==
    /\ [] ( (last.op = "read" /\ last.err = "none")
              => /\ sequenced
                 /\ shuffle_level = None
                 /\ Len(data) = Len(FieldsOfText(last.input_str, sep))
                 /\ \A i \in 1..Len(data) :
                       FieldOfRecord(FieldsOfText(last.input_str, sep)[i], data[i]) )
    /\ [][ ( /\ last.op = "read" /\ last.err = "none"
             /\ Called("serialize") /\ last'.shuffle_level = None )
              => /\ ~last'.ran_sequence
                 /\ data' = data
                 /\ result' = SerializeText(metadata, sep, data) ]_vars

(* C10's case: read has returned a sequencer whose records are not in      *)
(* chronological order.                                                    *)
C10_Witness ==
    /\ last.op = "read" /\ last.err = "none"
    /\ Len(data) >= 2
    /\ ~Ordered(data, None, FALSE)

=============================================================================
